---- MODULE Spec2Model ----
(***************************************************************************)
(* picdescbot/common.py: picking a random picture from Wikimedia Commons,  *)
(* describing it with the vision service, filtering the caption and        *)
(* downloading the picture.                                                *)
(*                                                                         *)
(* A Python string is a sequence of one-character strings, so that lower(),*)
(* split(), join(), the substring test of the word filter and the regular  *)
(* expression of supported_formats are computed character by character.    *)
(***************************************************************************)
EXTENDS Integers, Sequences, FiniteSets, TLC

(***************************************************************************)
(* Python's None, and the strings the model's inputs are made of.          *)
(***************************************************************************)
None == [type |-> "NoneType"]

W_woman == <<"w", "o", "m", "a", "n">>
W_man == <<"m", "a", "n">>
W_women == <<"w", "o", "m", "e", "n">>
W_men == <<"m", "e", "n">>
W_person == <<"p", "e", "r", "s", "o", "n">>
W_people == <<"p", "e", "o", "p", "l", "e">>

(* str.lower() on the ASCII letters; every other character is unchanged.   *)
LowerOf ==
    "A" :> "a" @@ "B" :> "b" @@ "C" :> "c" @@ "D" :> "d" @@ "E" :> "e" @@ "F" :> "f" @@
    "G" :> "g" @@ "H" :> "h" @@ "I" :> "i" @@ "J" :> "j" @@ "K" :> "k" @@ "L" :> "l" @@
    "M" :> "m" @@ "N" :> "n" @@ "O" :> "o" @@ "P" :> "p" @@ "Q" :> "q" @@ "R" :> "r" @@
    "S" :> "s" @@ "T" :> "t" @@ "U" :> "u" @@ "V" :> "v" @@ "W" :> "w" @@ "X" :> "x" @@
    "Y" :> "y" @@ "Z" :> "z"

LowerChar(c) == IF c \in DOMAIN LowerOf THEN LowerOf[c] ELSE c

Lower(str) == [i \in DOMAIN str |-> LowerChar(str[i])]

(* The characters str.split() with no argument splits on.                  *)
Whitespace == {" ", "\t", "\n"}

(* str.split(): the maximal runs of non-whitespace characters, in order.   *)
(* cur is the word being read, acc the words read so far.                  *)
RECURSIVE SplitFrom(_, _, _, _)
SplitFrom(str, i, cur, acc) ==
    IF i > Len(str)
    THEN IF cur = <<>> THEN acc ELSE Append(acc, cur)
    ELSE IF str[i] \in Whitespace
         THEN SplitFrom(str, i + 1, <<>>, IF cur = <<>> THEN acc ELSE Append(acc, cur))
         ELSE SplitFrom(str, i + 1, Append(cur, str[i]), acc)

Split(str) == SplitFrom(str, 1, <<>>, <<>>)

(* sep.join(words)                                                         *)
RECURSIVE Join(_, _)
Join(words, sep) ==
    IF words = <<>> THEN <<>>
    ELSE IF Len(words) = 1 THEN words[1]
    ELSE words[1] \o sep \o Join(Tail(words), sep)

(* needle in haystack, for Python strings                                  *)
Contains(haystack, needle) ==
    \E i \in 0..(Len(haystack) - Len(needle)) :
        SubSeq(haystack, i + 1, i + Len(needle)) = needle

EndsWith(str, suffix) ==
    /\ Len(suffix) <= Len(str)
    /\ SubSeq(str, Len(str) - Len(suffix) + 1, Len(str)) = suffix

(***************************************************************************)
(* gender_neutralize                                                       *)
(***************************************************************************)
gendered_words ==
    W_woman :> W_person @@ W_man :> W_person @@
    W_women :> W_people @@ W_men :> W_people

(* The same loop with lower() applied to each word after the lookup.       *)
gender_neutralize_LowerAfterLookup(phrase) ==
    LET words == Split(phrase)
        swap(word) == IF word \in DOMAIN gendered_words
                      THEN gendered_words[word] ELSE Lower(word)
    IN  Join([i \in DOMAIN words |-> swap(words[i])], <<" ">>)

gender_neutralize(phrase) ==
    LET words == Split(Lower(phrase))
        swap(word) == IF word \in DOMAIN gendered_words
                      THEN gendered_words[word] ELSE word
    IN  Join([i \in DOMAIN words |-> swap(words[i])], <<" ">>)

(***************************************************************************)
(* word_filter: Wordfilter() with add_words(['nazi']).  blacklisted(text)  *)
(* is true when the lower-cased text contains a blacklisted word.  The     *)
(* library's built-in list is not part of this repository; the word the   *)
(* repository adds stands for it.                                          *)
(***************************************************************************)
word_filter == {<<"n", "a", "z", "i">>}

blacklisted(text) == \E badword \in word_filter : Contains(Lower(text), badword)

category_blacklist == {<<"s", "e", "p", "t", "e", "m", "b", "e", "r", " ", "1", "1">>}

(* supported_formats = re.compile('\.(png|jpe?g|gif)$', re.I), searched in *)
(* the url: with re.I the letters match in either case, and Python's $     *)
(* matches at the end of the string or before one final newline.           *)
FormatSuffixes == {<<".", "p", "n", "g">>, <<".", "j", "p", "g">>, <<".", "j", "p", "e", "g">>, <<".", "g", "i", "f">>}

supported_formats_search(str) ==
    \E suffix \in FormatSuffixes :
        \/ EndsWith(Lower(str), suffix)
        \/ EndsWith(Lower(str), suffix \o <<"\n">>)

(***************************************************************************)
(* The pages the media API may answer with: every combination of the       *)
(* fields get_random_picture reads.  A category record always has the      *)
(* 'title' the API sends; the 'name' that line 82 reads is not a key of    *)
(* the API's category records, so a record may come without it.            *)
(***************************************************************************)
Titles == {<<"C", "a", "t", ".", "j", "p", "g">>, <<"N", "a", "z", "i", " ", "r", "a", "l", "l", "y", ".", "j", "p", "g">>}
ObjectNames == {<<"a", " ", "c", "a", "t">>, <<"N", "A", "Z", "I", " ", "p", "a", "r", "a", "d", "e">>}
RestrictionValues == {<<>>, <<"n", "a", "z", "i", " ", "s", "y", "m", "b", "o", "l">>}
CategoryLists ==
    { << [title |-> <<"C", "a", "t", "e", "g", "o", "r", "y", ":", "C", "a", "t", "s">>] >>,
      << [title |-> <<"C", "a", "t", "e", "g", "o", "r", "y", ":", "C", "a", "t", "s">>], [title |-> <<"C", "a", "t", "e", "g", "o", "r", "y", ":", "S", "e", "p", "t", "e", "m", "b", "e", "r", " ", "1", "1", " ", "a", "t", "t", "a", "c", "k", "s">>] >>,
      << [title |-> <<"C", "a", "t", "e", "g", "o", "r", "y", ":", "S", "E", "P", "T", "E", "M", "B", "E", "R", " ", "1", "1", " ", "m", "e", "m", "o", "r", "i", "a", "l", "s">>, name |-> <<"m", "e", "m", "o", "r", "i", "a", "l", "s">>] >> }
MediaTypes == {"BITMAP", "DRAWING"}
Widths == {40, 50, 51}
Heights == {50, 51}
Urls == {<<"a", ".", "p", "n", "g">>, <<"b", ".", "J", "P", "G">>, <<"c", ".", "j", "p", "e", "g">>, <<"d", ".", "g", "i", "f">>, <<"e", ".", "b", "m", "p">>, <<"f", "j", "p", "g">>}
Sizes == {4000000, 4000001}

Pages ==
    { [title |-> t,
       categories |-> c,
       imageinfo |->
           [url |-> u, thumburl |-> <<"t", "h", "u", "m", "b", "/">> \o u, size |-> s,
            width |-> w, height |-> h, mediatype |-> m,
            descriptionshorturl |-> <<"c", "u", "r", "i", "d", "/">> \o u,
            extmetadata |-> [ObjectName |-> [value |-> o],
                             Restrictions |-> [value |-> r]]]] :
      t \in Titles, c \in CategoryLists, u \in Urls, s \in Sizes, w \in Widths,
      h \in Heights, m \in MediaTypes, o \in ObjectNames, r \in RestrictionValues }

(***************************************************************************)
(* get_random_picture, from the page the media API answered with.  What a  *)
(* call comes to is a record: exc names the exception it raised (None when *)
(* it returned) and value is what it returned.                             *)
(***************************************************************************)
Returns(v) == [exc |-> None, value |-> v]
Raises(e) == [exc |-> [type |-> e], value |-> None]

(* for category ...: for blacklisted_category ...: the categories, in      *)
(* order, whose lower-cased title contains a blacklisted category.         *)
BlacklistedCategories(page) ==
    { i \in DOMAIN page.categories :
        \E blacklisted_category \in category_blacklist :
            Contains(Lower(page.categories[i].title), blacklisted_category) }

FirstOf(indices) == CHOOSE i \in indices : \A j \in indices : i <= j

MinDimension == 50

get_random_picture(page) ==
    LET imageinfo == page.imageinfo
        extra_metadata == imageinfo.extmetadata
        hits == BlacklistedCategories(page)
    IN  IF blacklisted(page.title) THEN Returns(None)
        ELSE IF blacklisted(extra_metadata.ObjectName.value) THEN Returns(None)
        ELSE IF blacklisted(extra_metadata.Restrictions.value) THEN Returns(None)
        ELSE IF hits # {}
             THEN IF "name" \in DOMAIN page.categories[FirstOf(hits)]
                  THEN Returns(None)
                  ELSE Raises("KeyError")
        ELSE IF imageinfo.mediatype # "BITMAP" THEN Returns(None)
        ELSE IF imageinfo.width <= MinDimension \/ imageinfo.height <= MinDimension
             THEN Returns(None)
        ELSE IF ~supported_formats_search(imageinfo.url) THEN Returns(None)
        ELSE Returns(imageinfo)

(***************************************************************************)
(* The answers of the vision service.  headers is the mapping of the       *)
(* response's headers, content the bytes of its body and json what         *)
(* response.json() decodes them to.  The error answers of the service      *)
(* carry a JSON body, which lines 118 and 137 decode to print it.          *)
(***************************************************************************)
Analysis(isAdult, texts) ==
    [description |->
        [captions |-> [i \in DOMAIN texts |-> [text |-> texts[i], confidence |-> 90 - i]],
         tags |-> <<<<"o", "u", "t", "d", "o", "o", "r">>, <<"m", "a", "n">>>>],
     adult |-> [isAdultContent |-> isAdult]]

Analyses ==
    { Analysis(FALSE, << <<"a", " ", "M", "a", "n", " ", "r", "i", "d", "i", "n", "g", " ", " ", "a", " ", "h", "o", "r", "s", "e">> >>),
      Analysis(FALSE, << <<"a", " ", "c", "a", "t">>, <<"a", " ", "n", "a", "z", "i", " ", "f", "l", "a", "g">> >>),
      Analysis(FALSE, << <<"a", " ", "N", "A", "Z", "I", " ", "f", "l", "a", "g">>, <<"a", " ", "c", "a", "t">> >>),
      Analysis(FALSE, << >>),
      Analysis(TRUE, << <<"a", " ", "w", "o", "m", "a", "n">> >>) }

(* The JSON object {}: a dict with no keys, falsy in Python.               *)
EmptyJson == [type |-> "dict", len |-> 0]
ErrorJson == [type |-> "dict", message |-> <<"e", "r", "r", "o", "r">>]
NotJson == [type |-> "not JSON"]

JsonHeaders == "server" :> <<"x">> @@ "content-type" :> <<"a", "p", "p", "l", "i", "c", "a", "t", "i", "o", "n", "/", "j", "s", "o", "n", ";", " ", "c", "h", "a", "r", "s", "e", "t", "=", "u", "t", "f", "-", "8">>
JsonHeadersUpper == "server" :> <<"x">> @@ "content-type" :> <<"A", "p", "p", "l", "i", "c", "a", "t", "i", "o", "n", "/", "J", "S", "O", "N">>
              @@ "content-length" :> <<"1", "7">>
EmptyBodyHeaders == "server" :> <<"x">> @@ "content-type" :> <<"a", "p", "p", "l", "i", "c", "a", "t", "i", "o", "n", "/", "j", "s", "o", "n">>
              @@ "content-length" :> <<"0">>
ImageHeaders == "server" :> <<"x">> @@ "content-type" :> <<"I", "m", "a", "g", "e", "/", "P", "N", "G">>
HtmlHeaders == "server" :> <<"x">> @@ "content-type" :> <<"t", "e", "x", "t", "/", "h", "t", "m", "l">>
BareHeaders == "server" :> <<"x">>

Response(status, hdrs, body, decoded) ==
    [status_code |-> status, headers |-> hdrs, content |-> body, json |-> decoded]

ErrorStatuses == {403, 500}
OkStatuses == {200, 201}

CVAPIResponses ==
    { Response(429, JsonHeaders, <<"{", "e", "}">>, ErrorJson) }
    \cup { Response(s, JsonHeaders, <<"{", "e", "}">>, ErrorJson) : s \in ErrorStatuses }
    \cup { Response(s, EmptyBodyHeaders, <<>>, NotJson) : s \in OkStatuses }
    \cup { Response(200, JsonHeaders, <<"{", "a", "}">>, a) : a \in Analyses }
    \cup { Response(201, JsonHeadersUpper, <<"{", "a", "}">>, Analysis(FALSE, << <<"t", "w", "o", " ", "M", "e", "n">> >>)),
           Response(200, JsonHeaders, <<>>, NotJson),
           Response(200, JsonHeaders, <<"{", "}">>, EmptyJson),
           Response(200, ImageHeaders, <<"P", "N", "G">>, NotJson),
           Response(200, ImageHeaders, <<>>, NotJson),
           Response(200, HtmlHeaders, <<"<", "h", "t", "m", "l", ">">>, NotJson),
           Response(200, BareHeaders, <<"{", "a", "}">>, Analysis(FALSE, << <<"a", " ", "c", "a", "t">> >>)) }

(* int(str) on a string of decimal digits                                  *)
DigitOf ==
    "0" :> 0 @@ "1" :> 1 @@ "2" :> 2 @@ "3" :> 3 @@ "4" :> 4 @@
    "5" :> 5 @@ "6" :> 6 @@ "7" :> 7 @@ "8" :> 8 @@ "9" :> 9

RECURSIVE ParseInt(_)
ParseInt(digits) ==
    IF digits = <<>> THEN 0
    ELSE 10 * ParseInt(SubSeq(digits, 1, Len(digits) - 1)) + DigitOf[digits[Len(digits)]]

(* response.content kept as the result: a bytes object                     *)
Bytes(body) == [type |-> "bytes", value |-> body]

(* Python truthiness of what describe_picture holds in result              *)
Truthy(v) ==
    /\ v # None
    /\ v # EmptyJson
    /\ v # Bytes(<<>>)

(***************************************************************************)
(* CVAPIClient.describe_picture                                            *)
(***************************************************************************)
DescribeBudget == 15
RateLimitSleep == 2
ErrorSleepBase == 10
ErrorSleepStep == 3

(* The loop condition with the budget test made inclusive.                 *)
DescribeLoopCond_Inclusive(d_retries_, d_result_) ==
    d_retries_ <= DescribeBudget /\ ~Truthy(d_result_)

(* while retries < 15 and not result                                       *)
DescribeLoopCond(d_retries_, d_result_) ==
    d_retries_ < DescribeBudget /\ ~Truthy(d_result_)

(* The loop body with the 429 branch keeping a count of its own: it sleeps *)
(* and leaves retries, the count of the other errors, alone.               *)
DescribeStep_OwnBudget(d_retries_, d_result_, resp) ==
    LET h == resp.headers
        after(r, v, t) == [retries |-> r, result |-> v, slept |-> t]
    IN  IF resp.status_code = 429
        THEN after(d_retries_, d_result_, RateLimitSleep)
        ELSE IF resp.status_code = 200 \/ resp.status_code = 201
        THEN IF "content-length" \in DOMAIN h /\ ParseInt(h["content-length"]) = 0
             THEN after(d_retries_, None, 0)
             ELSE IF "content-type" \in DOMAIN h
             THEN IF Contains(Lower(h["content-type"]), <<"a", "p", "p", "l", "i", "c", "a", "t", "i", "o", "n", "/", "j", "s", "o", "n">>)
                  THEN after(d_retries_,
                             IF resp.content # <<>> THEN resp.json ELSE None, 0)
                  ELSE IF Contains(Lower(h["content-type"]), <<"i", "m", "a", "g", "e">>)
                  THEN after(d_retries_, Bytes(resp.content), 0)
                  ELSE after(d_retries_, d_result_, 0)
             ELSE after(d_retries_, d_result_, 0)
        ELSE after(d_retries_ + 1, d_result_,
                   ErrorSleepBase + (d_retries_ + 1) * ErrorSleepStep)

(* The loop body with the error branch sleeping before it counts: the      *)
(* sleep is computed from the counter as it was before the increment.      *)
DescribeStep_SleepFirst(d_retries_, d_result_, resp) ==
    LET h == resp.headers
        after(r, v, t) == [retries |-> r, result |-> v, slept |-> t]
    IN  IF resp.status_code = 429
        THEN IF d_retries_ < DescribeBudget
             THEN after(d_retries_ + 1, d_result_, RateLimitSleep)
             ELSE after(d_retries_, d_result_, 0)
        ELSE IF resp.status_code = 200 \/ resp.status_code = 201
        THEN IF "content-length" \in DOMAIN h /\ ParseInt(h["content-length"]) = 0
             THEN after(d_retries_, None, 0)
             ELSE IF "content-type" \in DOMAIN h
             THEN IF Contains(Lower(h["content-type"]), <<"a", "p", "p", "l", "i", "c", "a", "t", "i", "o", "n", "/", "j", "s", "o", "n">>)
                  THEN after(d_retries_,
                             IF resp.content # <<>> THEN resp.json ELSE None, 0)
                  ELSE IF Contains(Lower(h["content-type"]), <<"i", "m", "a", "g", "e">>)
                  THEN after(d_retries_, Bytes(resp.content), 0)
                  ELSE after(d_retries_, d_result_, 0)
             ELSE after(d_retries_, d_result_, 0)
        ELSE after(d_retries_ + 1, d_result_,
                   ErrorSleepBase + d_retries_ * ErrorSleepStep)

(* One pass of the loop body on the response the POST got: the new value   *)
(* of retries and of result, and the time it slept.                        *)
DescribeStep(d_retries_, d_result_, resp) ==
    LET h == resp.headers
        after(r, v, t) == [retries |-> r, result |-> v, slept |-> t]
    IN  IF resp.status_code = 429
        THEN IF d_retries_ < DescribeBudget
             THEN after(d_retries_ + 1, d_result_, RateLimitSleep)
             ELSE after(d_retries_, d_result_, 0)
        ELSE IF resp.status_code = 200 \/ resp.status_code = 201
        THEN IF "content-length" \in DOMAIN h /\ ParseInt(h["content-length"]) = 0
             THEN after(d_retries_, None, 0)
             ELSE IF "content-type" \in DOMAIN h
             THEN IF Contains(Lower(h["content-type"]), <<"a", "p", "p", "l", "i", "c", "a", "t", "i", "o", "n", "/", "j", "s", "o", "n">>)
                  THEN after(d_retries_,
                             IF resp.content # <<>> THEN resp.json ELSE None, 0)
                  ELSE IF Contains(Lower(h["content-type"]), <<"i", "m", "a", "g", "e">>)
                  THEN after(d_retries_, Bytes(resp.content), 0)
                  ELSE after(d_retries_, d_result_, 0)
             ELSE after(d_retries_, d_result_, 0)
        ELSE after(d_retries_ + 1, d_result_,
                   ErrorSleepBase + (d_retries_ + 1) * ErrorSleepStep)

(***************************************************************************)
(* The state.                                                              *)
(*   gender_neutralize alone: gn_pc, phrase, neutralized, twice            *)
(*   get_random_picture alone: gp_pc, page, got                            *)
(*   get_picture_and_description: pc, max_retries, retries, pic, url,      *)
(*     result, returned, exc; candidate is the page pic was taken from,    *)
(*     acceptedAt the cycle it was accepted in, rejects the fetches of the *)
(*     current cycle that came back None, describeCalls the calls of       *)
(*     describe_picture made so far                                        *)
(*   describe_picture, while it runs: d_url (its argument), d_retries,     *)
(*     d_result, response;                                                 *)
(*     posts counts its POST requests, only429 tells that all of them were *)
(*     answered 429 and onlyFailures that none of them was answered 200 or *)
(*     201; slept is the time the last step slept                          *)
(*   describe_picture called on its own: errSlept is a history variable,   *)
(*     the longest sleep of the call that followed an error response (0:   *)
(*     none yet); it is recorded only when describe_picture is followed    *)
(*     alone and stays 0 everywhere else                                   *)
(*   Result.download_picture: dl_pc, dl_retries, picture, dl_exc,          *)
(*     dl_response; gets counts its GET requests, okAt is the request the  *)
(*     server answers with 200 (0: none)                                   *)
(***************************************************************************)
VARIABLES gn_pc, phrase, neutralized, twice,
          gp_pc, page, got,
          pc, max_retries, retries, pic, url, result, returned, exc,
          candidate, acceptedAt, rejects, describeCalls,
          d_url, d_retries, d_result, response, posts, only429, onlyFailures, slept,
          errSlept,
          dl_pc, dl_retries, picture, dl_exc, dl_response, gets, okAt

gnVars == <<gn_pc, phrase, neutralized, twice>>
gpVars == <<gp_pc, page, got>>
describeVars ==
    <<d_url, d_retries, d_result, response, posts, only429, onlyFailures>>
orchVars == <<pc, max_retries, retries, pic, url, result, returned, exc,
              candidate, acceptedAt, rejects, describeCalls, describeVars, slept>>
dlVars == <<dl_pc, dl_retries, picture, dl_exc, dl_response, gets, okAt>>
vars == <<gnVars, gpVars, orchVars, dlVars, errSlept>>

(* The bounds of the model.                                                *)
MaxTokens == 3
MaxRetriesArg == 2
MaxRejects == 1
MaxIdlePosts == 1
MaxOkAt == 5

gnIdle == gn_pc = "idle" /\ phrase = <<>> /\ neutralized = <<>> /\ twice = <<>>
gpIdle == gp_pc = "idle" /\ page = None /\ got = None
describeIdle ==
    /\ d_url = <<>>
    /\ d_retries = 0 /\ d_result = None /\ response = None
    /\ posts = 0 /\ only429 = TRUE /\ onlyFailures = TRUE
    /\ errSlept = 0
dlIdle ==
    /\ dl_pc = "idle" /\ dl_retries = 0 /\ picture = None /\ dl_exc = None
    /\ dl_response = None /\ gets = 0 /\ okAt = 0
orchIdle ==
    /\ pc = "idle" /\ max_retries = 0 /\ retries = 0 /\ pic = None /\ url = <<>>
    /\ result = None /\ returned = None /\ exc = None /\ candidate = None
    /\ acceptedAt = 0 /\ rejects = 0 /\ describeCalls = 0 /\ slept = 0
    /\ describeIdle

(***************************************************************************)
(* CVAPIClient.get_picture_and_description                                 *)
(***************************************************************************)
DefaultMaxRetries == 20
BigPicture == 4000000
PoliteSleep == 3
BadPictureSleep == 1

Exception(message) == [type |-> "Exception", message |-> message]
Error(type) == [type |-> type, message |-> ""]

(* class Result: __init__                                                  *)
Result(caption, tags, url_, source_url) ==
    [caption |-> caption, tags |-> tags, url |-> url_, source_url |-> source_url]

(* The outer loop condition made strict.                                   *)
OuterLoopCond_Strict(retries_, max_retries_) == retries_ < max_retries_

(* The outer loop condition letting one more cycle through.                *)
OuterLoopCond_OneMore(retries_, max_retries_) == retries_ <= max_retries_ + 1

(* while retries <= max_retries                                            *)
OuterLoopCond(retries_, max_retries_) == retries_ <= max_retries_

(* The thumbnail taken already for a picture of exactly the limit.         *)
ChosenUrl_Inclusive(pic_) == IF pic_.size >= BigPicture THEN pic_.thumburl ELSE pic_.url

(* url = pic['url']; if pic['size'] > 4000000: url = pic['thumburl']       *)
ChosenUrl(pic_) == IF pic_.size > BigPicture THEN pic_.thumburl ELSE pic_.url

(* The caption kept as the service sent it.                                *)
FirstCaption_Raw(result_) == result_.description.captions[1].text

(* caption = description['captions'][0]['text'];                           *)
(* caption = gender_neutralize(caption)                                    *)
FirstCaption(result_) == gender_neutralize(result_.description.captions[1].text)

(* The test of the caption left out.                                       *)
CaptionAccepted_Always(caption) == TRUE

(* if not word_filter.blacklisted(caption)                                 *)
CaptionAccepted(caption) == ~blacklisted(caption)

(* What lines 160-177 make of the value describe_picture returned:         *)
(* "return" with the Result, "raise" with the exception of a subscript     *)
(* that fails, or "discard".                                               *)
Verdict(result_, url_, pic_) ==
    IF result_ = None THEN [kind |-> "discard"]
    ELSE IF "type" \in DOMAIN result_ /\ result_.type = "bytes"
         THEN [kind |-> "raise", exc |-> Error("TypeError")]
    ELSE IF "description" \notin DOMAIN result_
         THEN [kind |-> "raise", exc |-> Error("KeyError")]
    ELSE IF result_.adult.isAdultContent THEN [kind |-> "discard"]
    ELSE IF Len(result_.description.captions) = 0 THEN [kind |-> "discard"]
    ELSE IF CaptionAccepted(FirstCaption(result_))
         THEN [kind |-> "return",
               value |-> Result(FirstCaption(result_), result_.description.tags,
                                url_, pic_.descriptionshorturl)]
    ELSE [kind |-> "discard"]

RetryArgs == (0..MaxRetriesArg) \cup {DefaultMaxRetries}

InitOrchestrator ==
    /\ max_retries \in RetryArgs
    /\ retries = 0 /\ pic = None /\ url = <<>>
    /\ result = None /\ returned = None
    /\ candidate = None /\ acceptedAt = 0 /\ rejects = 0 /\ describeCalls = 0
    /\ slept = 0
    /\ describeIdle
    /\ IF OuterLoopCond(0, max_retries)
       THEN pc = "fetch" /\ exc = None
       ELSE pc = "raised" /\ exc = Exception("Maximum retries exceeded, no good picture")

(* result = self.describe_picture(url): the call, lines 106-112, and the   *)
(* first test of the loop condition.                                       *)
StartDescribe(url_) ==
    /\ describeCalls' = describeCalls + 1
    /\ d_url' = url_
    /\ d_retries' = 0 /\ d_result' = None /\ response' = None
    /\ posts' = 0 /\ only429' = TRUE /\ onlyFailures' = TRUE
    /\ IF DescribeLoopCond(0, None)
       THEN pc' = "post" /\ UNCHANGED result
       ELSE pc' = "eval" /\ result' = None

(* The locals of describe_picture once it has returned.                    *)
EndDescribe ==
    /\ d_url' = <<>>
    /\ d_retries' = 0 /\ d_result' = None /\ response' = None
    /\ posts' = 0 /\ only429' = TRUE /\ onlyFailures' = TRUE

(* One pass of the inner loop: pic = get_random_picture() on the page the  *)
(* media API answered with.  A bad picture is followed by time.sleep(1);   *)
(* a good one by lines 153-158, up to the first test of describe_picture's *)
(* loop condition.                                                         *)
Fetch(p) ==
    /\ pc = "fetch"
    /\ LET call == get_random_picture(p) IN
       IF call.exc # None
       THEN /\ pc' = "raised"
            /\ exc' = Error(call.exc.type)
            /\ slept' = 0
            /\ UNCHANGED <<pic, url, result, candidate, acceptedAt, rejects,
                           describeCalls, describeVars>>
       ELSE IF call.value = None
       THEN /\ rejects < MaxRejects
            /\ rejects' = rejects + 1
            /\ slept' = BadPictureSleep
            /\ UNCHANGED <<pc, exc, pic, url, result, candidate, acceptedAt,
                           describeCalls, describeVars>>
       ELSE /\ pic' = call.value
            /\ url' = ChosenUrl(call.value)
            /\ candidate' = p
            /\ acceptedAt' = retries
            /\ rejects' = 0
            /\ slept' = 0
            /\ StartDescribe(ChosenUrl(call.value))
            /\ UNCHANGED exc
    /\ UNCHANGED <<max_retries, retries, returned>>
    /\ UNCHANGED <<gnVars, gpVars, dlVars>>
    /\ UNCHANGED errSlept

(* One pass of describe_picture's loop: the POST, the branch its response  *)
(* takes and the test of the loop condition; when the loop ends the result *)
(* is returned to line 158.  A response that neither ends the loop nor     *)
(* uses up the counter may come MaxIdlePosts times in one call.            *)
Post(resp) ==
    /\ pc = "post"
    /\ LET step == DescribeStep(d_retries, d_result, resp) IN
       /\ ~ /\ step.retries = d_retries
            /\ DescribeLoopCond(step.retries, step.result)
            /\ posts - d_retries >= MaxIdlePosts
       /\ d_retries' = step.retries
       /\ d_result' = step.result
       /\ slept' = step.slept
       /\ IF DescribeLoopCond(step.retries, step.result)
          THEN pc' = "post" /\ UNCHANGED result
          ELSE pc' = "eval" /\ result' = step.result
    /\ response' = resp
    /\ posts' = posts + 1
    /\ only429' = (only429 /\ resp.status_code = 429)
    /\ onlyFailures' = (onlyFailures /\ resp.status_code \notin {200, 201})
    /\ UNCHANGED <<max_retries, retries, pic, url, returned, exc, candidate,
                   acceptedAt, rejects, describeCalls, d_url>>
    /\ UNCHANGED <<gnVars, gpVars, dlVars>>

(* The picture left where line 180 forgets it.                            *)
PicAfterDiscard_Kept(pic_) == pic_

(* pic = None                                                              *)
PicAfterDiscard(pic_) == None

(* Lines 160-183 on the value describe_picture returned: return the        *)
(* Result, or count the cycle, forget the picture, sleep and test the      *)
(* outer loop condition, raising when it fails.  When the loop goes on,    *)
(* the inner loop 'while pic is None' is entered if pic is None, and lines *)
(* 153-158 follow at once if it is not.  url and result are assigned anew  *)
(* (lines 153, 158) before the next cycle reads them, and so are cleared   *)
(* with pic when a cycle is discarded.                                     *)
Evaluate ==
    /\ pc = "eval"
    /\ LET verdict == Verdict(result, url, pic)
           kept == PicAfterDiscard(pic)
       IN
       IF verdict.kind = "return"
       THEN /\ pc' = "returned"
            /\ returned' = verdict.value
            /\ slept' = 0
            /\ EndDescribe
            /\ UNCHANGED <<retries, pic, url, result, candidate, exc, describeCalls>>
       ELSE IF verdict.kind = "raise"
       THEN /\ pc' = "raised"
            /\ exc' = verdict.exc
            /\ slept' = 0
            /\ EndDescribe
            /\ UNCHANGED <<retries, pic, url, result, candidate, returned,
                           describeCalls>>
       ELSE /\ retries' = retries + 1
            /\ pic' = kept
            /\ slept' = PoliteSleep
            /\ UNCHANGED returned
            /\ IF ~OuterLoopCond(retries + 1, max_retries)
               THEN /\ pc' = "raised"
                    /\ exc' = Exception("Maximum retries exceeded, no good picture")
                    /\ candidate' = None
                    /\ url' = <<>> /\ result' = None
                    /\ EndDescribe
                    /\ UNCHANGED describeCalls
               ELSE IF kept = None
               THEN /\ pc' = "fetch"
                    /\ candidate' = None
                    /\ url' = <<>> /\ result' = None
                    /\ EndDescribe
                    /\ UNCHANGED <<exc, describeCalls>>
               ELSE /\ url' = ChosenUrl(kept)
                    /\ StartDescribe(ChosenUrl(kept))
                    /\ UNCHANGED <<exc, candidate>>
    /\ UNCHANGED <<max_retries, acceptedAt, rejects>>
    /\ UNCHANGED <<gnVars, gpVars, dlVars>>
    /\ UNCHANGED errSlept

(***************************************************************************)
(* Result.download_picture, called on the Result that was returned.  The   *)
(* server is scripted: it answers the request numbered okAt with 200 and   *)
(* every other one with an error status.                                   *)
(***************************************************************************)
DownloadBudget == 20
DownloadErrorStatuses == {404, 500}
PictureBodies == {<<"P", "N", "G">>, <<"J", "F", "I", "F">>}

BytesIO(body) == [type |-> "BytesIO", content |-> body]

(* while retries <= 20                                                     *)
DownloadLoopCond(dl_retries_) == dl_retries_ <= DownloadBudget

(* print("downloading " + self.url) and the first test of the loop.        *)
DownloadCall ==
    /\ pc = "returned"
    /\ dl_pc = "idle"
    /\ okAt' \in 0..MaxOkAt
    /\ dl_retries' = 0
    /\ picture' = None
    /\ IF DownloadLoopCond(0)
       THEN dl_pc' = "get" /\ UNCHANGED dl_exc
       ELSE /\ dl_pc' = "raised"
            /\ dl_exc' = Exception("Maximum retries exceeded when downloading a picture")
    /\ UNCHANGED <<dl_response, gets>>
    /\ UNCHANGED <<gnVars, gpVars, orchVars, errSlept>>

(* One pass of the loop.  On a status other than 200, line 207 adds        *)
(* response.status_code, an int, to a str: the + raises TypeError, and     *)
(* lines 208-210 are not reached.                                          *)
Get(status, body) ==
    /\ dl_pc = "get"
    /\ (status = 200) <=> (gets + 1 = okAt)
    /\ gets' = gets + 1
    /\ dl_response' = [status_code |-> status, content |-> body]
    /\ IF status = 200
       THEN /\ picture' = BytesIO(body)
            /\ dl_pc' = "done"
            /\ UNCHANGED dl_exc
       ELSE /\ dl_pc' = "raised"
            /\ dl_exc' = Error("TypeError")
            /\ UNCHANGED picture
    /\ UNCHANGED <<dl_retries, okAt>>
    /\ UNCHANGED <<gnVars, gpVars, orchVars, errSlept>>

(* The steps with what the servers answer.                                 *)
FetchPicture == pc = "fetch" /\ \E p \in Pages : Fetch(p)

PostPicture ==
    pc = "post" /\ \E resp \in CVAPIResponses : Post(resp) /\ UNCHANGED errSlept

GetPicture ==
    /\ dl_pc = "get"
    /\ \E status \in {200} \cup DownloadErrorStatuses, body \in PictureBodies :
           Get(status, body)

Init ==
    /\ InitOrchestrator
    /\ gnIdle /\ gpIdle /\ dlIdle

Next ==
    \/ FetchPicture
    \/ PostPicture
    \/ Evaluate
    \/ DownloadCall
    \/ GetPicture

Spec == Init /\ [][Next]_vars

(***************************************************************************)
(* gender_neutralize applied to a phrase, and again to what it returned.   *)
(* The phrases are up to MaxTokens tokens written one after another, and   *)
(* the phrase of the documentation.                                        *)
(***************************************************************************)
Tokens ==
    { W_woman, W_women, W_person, W_people, <<"M", "a", "n">>, <<"M", "E", "N">>, <<"w", "o">>, <<"a">>,
      <<" ">>, <<"\t">> }

RECURSIVE Flatten(_)
Flatten(tokens) == IF tokens = <<>> THEN <<>> ELSE tokens[1] \o Flatten(Tail(tokens))

ExamplePhrase == <<"a", " ", "w", "o", "m", "a", "n", " ", "a", "n", "d", " ", "t", "w", "o", " ", "m", "e", "n">>

Phrases ==
    { Flatten(tokens) : tokens \in UNION { [1..k -> Tokens] : k \in 0..MaxTokens } }
    \cup { ExamplePhrase }

InitNeutralize ==
    /\ gn_pc = "call" /\ phrase \in Phrases /\ neutralized = <<>> /\ twice = <<>>
    /\ gpIdle /\ orchIdle /\ dlIdle

Neutralize ==
    /\ gn_pc = "call"
    /\ neutralized' = gender_neutralize(phrase)
    /\ gn_pc' = "once"
    /\ UNCHANGED <<phrase, twice, gpVars, orchVars, dlVars, errSlept>>

NeutralizeAgain ==
    /\ gn_pc = "once"
    /\ twice' = gender_neutralize(neutralized)
    /\ gn_pc' = "twice"
    /\ UNCHANGED <<phrase, neutralized, gpVars, orchVars, dlVars, errSlept>>

NextNeutralize == Neutralize \/ NeutralizeAgain

SpecNeutralize == InitNeutralize /\ [][NextNeutralize]_vars

(***************************************************************************)
(* get_random_picture applied to each page.                                *)
(***************************************************************************)
InitPicture ==
    /\ gp_pc = "call" /\ page \in Pages /\ got = None
    /\ gnIdle /\ orchIdle /\ dlIdle

GetRandomPicture ==
    /\ gp_pc = "call"
    /\ got' = get_random_picture(page)
    /\ gp_pc' = "done"
    /\ UNCHANGED <<page, gnVars, orchVars, dlVars, errSlept>>

NextPicture == GetRandomPicture

SpecPicture == InitPicture /\ [][NextPicture]_vars

(***************************************************************************)
(* describe_picture called on its own, on any url.  pc = "post" while its  *)
(* loop runs; pc = "eval" once it has returned, result holding the value   *)
(* it returned to its caller.                                              *)
(***************************************************************************)
InitDescribe ==
    /\ gnIdle /\ gpIdle /\ dlIdle
    /\ max_retries = 0 /\ retries = 0 /\ pic = None /\ url = <<>>
    /\ returned = None /\ exc = None /\ candidate = None
    /\ acceptedAt = 0 /\ rejects = 0 /\ slept = 0
    /\ describeCalls = 1
    /\ d_url \in Urls
    /\ d_retries = 0 /\ d_result = None /\ response = None
    /\ posts = 0 /\ only429 = TRUE /\ onlyFailures = TRUE
    /\ errSlept = 0
    /\ result = None
    /\ pc = IF DescribeLoopCond(0, None) THEN "post" ELSE "eval"

(* One pass of the loop, with the sleep that followed an error response    *)
(* recorded if it is the longest such sleep of the call so far.            *)
DescribePost ==
    /\ pc = "post"
    /\ \E resp \in CVAPIResponses :
          /\ Post(resp)
          /\ errSlept' = IF resp.status_code \in {429, 200, 201}
                            \/ slept' < errSlept
                         THEN errSlept
                         ELSE slept'

NextDescribe == DescribePost

SpecDescribe == InitDescribe /\ [][NextDescribe]_vars

(***************************************************************************)
(* The properties.                                                         *)
(***************************************************************************)
RetriesExceeded ==
    pc = "raised" /\ exc = Exception("Maximum retries exceeded, no good picture")

(* The seven filters of the picture source, as documented: the title, the  *)
(* ObjectName and the Restrictions are not blacklisted, no category title  *)
(* contains a blacklisted category, the media type is BITMAP, width and    *)
(* height exceed 50 and the url ends in .png, .jpg, .jpeg or .gif in       *)
(* either case.                                                            *)
AllSevenFiltersPass(p) ==
    /\ ~blacklisted(p.title)
    /\ ~blacklisted(p.imageinfo.extmetadata.ObjectName.value)
    /\ ~blacklisted(p.imageinfo.extmetadata.Restrictions.value)
    /\ \A i \in DOMAIN p.categories :
          ~Contains(Lower(p.categories[i].title), <<"s", "e", "p", "t", "e", "m", "b", "e", "r", " ", "1", "1">>)
    /\ p.imageinfo.mediatype = "BITMAP"
    /\ p.imageinfo.width > 50 /\ p.imageinfo.height > 50
    /\ \E suffix \in {<<".", "p", "n", "g">>, <<".", "j", "p", "g">>, <<".", "j", "p", "e", "g">>, <<".", "g", "i", "f">>} :
          EndsWith(Lower(p.imageinfo.url), suffix)

(* C1: when every cycle is discarded, get_picture_and_description(N) makes *)
(* exactly N+1 cycles, with N+1 calls of describe_picture and its counter  *)
(* going from 0 to N, and then fails with 'Maximum retries exceeded'; it   *)
(* fails so only then, and has returned no Result.                         *)
C1_ExactlyNPlusOneCycles ==
    /\ retries <= max_retries + 1
    /\ describeCalls <= max_retries + 1
    /\ RetriesExceeded =>
          /\ retries = max_retries + 1
          /\ describeCalls = max_retries + 1
          /\ returned = None
    /\ retries = max_retries + 1 => RetriesExceeded

C1_Witness ==
    /\ RetriesExceeded
    /\ max_retries = MaxRetriesArg
    /\ describeCalls = MaxRetriesArg + 1

(* C2: a describe_picture call whose requests are all answered 429 sleeps  *)
(* 2 after each of them, has made exactly 15 POST requests when it ends,   *)
(* returns None, and makes no 16th request.                                *)
C2_RateLimitedFifteenPosts ==
    (pc \in {"post", "eval"} /\ only429 /\ posts > 0) =>
        /\ posts <= 15
        /\ d_retries = posts
        /\ slept = 2
        /\ (pc = "eval") <=> (posts = 15)
        /\ pc = "eval" => (result = None /\ d_result = None)

C2_Witness ==
    pc = "eval" /\ only429 /\ posts = 15 /\ result = None /\ slept = 2

(* The value describe_picture returned is one the orchestrator accepts: a  *)
(* decoded analysis that is not adult and whose first caption, once        *)
(* neutralized, is not blacklisted.                                        *)
GoodResult(r) ==
    /\ "description" \in DOMAIN r
    /\ ~r.adult.isAdultContent
    /\ Len(r.description.captions) > 0
    /\ ~blacklisted(gender_neutralize(r.description.captions[1].text))

(* C3: when the first k-1 cycles were discarded and the k-th result is     *)
(* good, the orchestrator returns a Result whose caption is                *)
(* gender_neutralize of the first caption of that result, after exactly k  *)
(* calls of describe_picture (k <= max_retries + 1), and does nothing      *)
(* after it has returned.                                                  *)
C3_ReturnsAtKthCycle ==
    /\ [](pc = "returned" =>
            /\ GoodResult(result)
            /\ returned.caption = gender_neutralize(result.description.captions[1].text)
            /\ describeCalls = retries + 1
            /\ describeCalls <= max_retries + 1)
    /\ [][(pc = "eval" /\ GoodResult(result)) =>
            /\ pc' = "returned"
            /\ returned'.caption = gender_neutralize(result.description.captions[1].text)
            /\ describeCalls' = retries + 1]_vars
    /\ [][pc = "returned" => UNCHANGED orchVars]_vars

C3_Witness ==
    /\ pc = "returned"
    /\ describeCalls = 3 /\ retries = 2
    /\ result.description.captions[1].text = <<"a", " ", "M", "a", "n", " ", "r", "i", "d", "i", "n", "g", " ", " ", "a", " ", "h", "o", "r", "s", "e">>
    /\ returned.caption = <<"a", " ", "p", "e", "r", "s", "o", "n", " ", "r", "i", "d", "i", "n", "g", " ", "a", " ", "h", "o", "r", "s", "e">>

(* C4: a Result is returned only with a caption that is the neutralized    *)
(* first caption and is not blacklisted, from a result that is not adult   *)
(* content, for a picture that passed all seven filters in the same cycle. *)
C4_ResultInvariant ==
    pc = "returned" =>
        /\ returned.caption = gender_neutralize(result.description.captions[1].text)
        /\ ~blacklisted(returned.caption)
        /\ ~result.adult.isAdultContent
        /\ candidate \in Pages
        /\ AllSevenFiltersPass(candidate)
        /\ pic = candidate.imageinfo
        /\ returned.url \in {pic.url, pic.thumburl}
        /\ returned.source_url = pic.descriptionshorturl
        /\ acceptedAt = retries

C4_Witness ==
    /\ pc = "returned"
    /\ retries = 1
    /\ returned.caption = <<"a", " ", "c", "a", "t">>
    /\ candidate.imageinfo.width = 51 /\ candidate.imageinfo.url = <<"b", ".", "J", "P", "G">>

DownloadEnded == dl_pc \in {"done", "raised"}

(* C5: when the first k-1 responses are not 200 and the k-th is,           *)
(* download_picture returns the body of the k-th response after exactly k  *)
(* GET requests.                                                           *)
C5_DownloadRetriesUntil200 ==
    (DownloadEnded /\ okAt >= 1) =>
        /\ dl_pc = "done"
        /\ gets = okAt
        /\ dl_response.status_code = 200
        /\ picture = BytesIO(dl_response.content)

(* C6: when no response is 200, download_picture fails with 'Maximum       *)
(* retries exceeded when downloading a picture', after the 21 GET requests *)
(* of its budget, and in no other way.                                     *)
C6_DownloadFailsWithMaxRetries ==
    (DownloadEnded /\ okAt = 0) =>
        /\ dl_pc = "raised"
        /\ dl_exc = Exception("Maximum retries exceeded when downloading a picture")
        /\ gets = 21

EmptyBody(resp) ==
    /\ resp.status_code \in {200, 201}
    /\ "content-length" \in DOMAIN resp.headers
    /\ resp.headers["content-length"] = <<"0">>

(* C7: a 200 or 201 response with an empty body ends the describe_picture  *)
(* call, which returns None.                                               *)
C7_EmptyBodyEndsCall ==
    [][(pc = "post" /\ posts' = posts + 1 /\ EmptyBody(response')) =>
          (pc' = "eval" /\ result' = None)]_vars

(* C8, as claimed: with the default max_retries there are never more than  *)
(* 20 cycles.                                                              *)
C8_AtMost20Cycles ==
    max_retries = 20 => (describeCalls <= 20 /\ retries <= 20)

(* C8, amended: with the default max_retries there are never more than 21  *)
(* cycles (max_retries + 1), and the 21st happens.                         *)
C8_AtMost21Cycles ==
    max_retries = 20 => (describeCalls <= 21 /\ retries <= 21)

C8_Witness ==
    max_retries = 20 /\ describeCalls = 21 /\ retries = 21 /\ RetriesExceeded

(* C9: get_random_picture returns the candidate exactly when all seven     *)
(* filters pass, and returns None otherwise.                               *)
C9_AcceptsIffAllFiltersPass ==
    gp_pc = "done" =>
        /\ got.exc = None
        /\ got.value = IF AllSevenFiltersPass(page) THEN page.imageinfo ELSE None

(* A 200 or 201 response that says it is JSON and whose body is not empty:  *)
(* it has content, no content-length of 0, and decodes to a value that is  *)
(* not empty.                                                              *)
NonEmptyJson(resp) ==
    /\ resp.status_code \in {200, 201}
    /\ "content-type" \in DOMAIN resp.headers
    /\ Contains(Lower(resp.headers["content-type"]), <<"a", "p", "p", "l", "i", "c", "a", "t", "i", "o", "n", "/", "j", "s", "o", "n">>)
    /\ ~("content-length" \in DOMAIN resp.headers
          /\ resp.headers["content-length"] = <<"0">>)
    /\ resp.content # <<>>
    /\ resp.json # EmptyJson

HasBlacklistedCategory(p) ==
    \E i \in DOMAIN p.categories :
        Contains(Lower(p.categories[i].title), <<"s", "e", "p", "t", "e", "m", "b", "e", "r", " ", "1", "1">>)

(* C12: whenever a category title of the page contains a blacklisted       *)
(* category, in either case, get_random_picture returns None and does not  *)
(* raise.                                                                  *)
C12_CategoryRejectionReturnsNone ==
    (gp_pc = "done" /\ HasBlacklistedCategory(page)) =>
        (got.exc = None /\ got.value = None)

(* C13: in each cycle the chosen url is the thumbnail url exactly when the  *)
(* size of the picture is above 4,000,000 (at 4,000,000 it is the original *)
(* url); that url is the one describe_picture is called with and the one   *)
(* the Result holds, and the Result's source_url is the picture's          *)
(* descriptionshorturl.                                                    *)
C13_ChosenUrl ==
    /\ pc \in {"post", "eval", "returned"} =>
          /\ pic # None
          /\ (url = pic.thumburl) <=> (pic.size > 4000000)
          /\ (url = pic.url) <=> (pic.size <= 4000000)
    /\ pc \in {"post", "eval"} => d_url = url
    /\ pc = "returned" =>
          /\ returned.url = url
          /\ returned.source_url = pic.descriptionshorturl

C13_Witness ==
    /\ pc = "returned"
    /\ pic.size = 4000000
    /\ returned.url = pic.url /\ returned.url # pic.thumburl
    /\ returned.source_url = candidate.imageinfo.descriptionshorturl

(* C14: every describe_picture call uses a candidate accepted in its own   *)
(* cycle.  While describe_picture runs, pic is the picture of a page that  *)
(* get_random_picture accepted in the current cycle; a call of             *)
(* describe_picture begins only in the step in which a fetch returned a    *)
(* candidate, pic being None before it, so that a discarded cycle is       *)
(* followed by a new accepted fetch before the next call; and a fetch that *)
(* returned None is followed by a sleep of 1 and the inner loop again,     *)
(* without a change of the retries counter.                                *)
C14_FreshCandidatePerCall ==
    /\ [](pc \in {"post", "eval"} =>
            /\ pic # None
            /\ candidate \in Pages
            /\ get_random_picture(candidate) = Returns(pic)
            /\ acceptedAt = retries)
    /\ [](pc = "fetch" => pic = None)
    /\ [][describeCalls' # describeCalls =>
            /\ pc = "fetch" /\ pic = None
            /\ pic' # None
            /\ describeCalls' = describeCalls + 1
            /\ retries' = retries]_vars
    /\ [][(pc = "fetch" /\ rejects' = rejects + 1) =>
            /\ slept' = 1
            /\ pc' = "fetch" /\ pic' = None
            /\ retries' = retries
            /\ describeCalls' = describeCalls]_vars

C14_Witness ==
    /\ pc = "fetch" /\ pic = None
    /\ retries = 1 /\ describeCalls = 1
    /\ rejects = 1 /\ slept = 1

(* The call ended inside the inner loop: a fetch raised, so that this      *)
(* inner loop obtained no candidate.                                       *)
InnerLoopFailed == pc = "raised" /\ pic = None /\ ~RetriesExceeded

(* As long as every fetch has returned None, the call is in its inner      *)
(* loop, has called describe_picture never, has its counter at 0 and has   *)
(* neither returned nor raised.                                            *)
PollsWhileUnusable ==
    (describeCalls = 0 /\ exc = None) =>
        (pc = "fetch" /\ retries = 0 /\ returned = None /\ pic = None)

(* C15: while the media API returns only unusable candidates the call      *)
(* stays in its inner loop, without a call of describe_picture, a change   *)
(* of its counter or a failure; and when every inner loop has obtained a   *)
(* candidate and every describe_picture call has returned, the call ends   *)
(* with a Result or with the 'Maximum retries exceeded' failure.           *)
C15_PollsForeverElseTerminates ==
    /\ PollsWhileUnusable
    /\ (pc \in {"returned", "raised"} /\ ~InnerLoopFailed) =>
          (pc = "returned" \/ RetriesExceeded)

(* The POST that has just been answered got a status that is neither 429   *)
(* nor 200/201.                                                            *)
ErrorAnswered ==
    /\ pc = "post" /\ posts' = posts + 1
    /\ response'.status_code \notin {429, 200, 201}

(* C16: in describe_picture, after a response whose status is neither 429  *)
(* nor 200/201 the shared counter is incremented first and the sleep that  *)
(* follows lasts 10 + 3 x (the counter after the increment, earlier 429    *)
(* attempts counted in it); the sleep is at least 13 and at most 55 and    *)
(* strictly longer than the sleep after any earlier such error of the      *)
(* same call.                                                              *)
C16_ErrorSleepEscalates ==
    [][ErrorAnswered =>
          /\ d_retries' = d_retries + 1
          /\ d_retries' >= posts' - MaxIdlePosts
          /\ slept' = ErrorSleepBase + ErrorSleepStep * d_retries'
          /\ 13 <= slept' /\ slept' <= 55
          /\ slept' > errSlept
          /\ errSlept' = slept']_vars

(* The fifteenth attempt of a call was answered with an error, after       *)
(* earlier attempts answered 429 and earlier errors: the sleep is 55, the  *)
(* longest of the call.                                                    *)
C16_Witness ==
    /\ pc = "eval" /\ describeCalls = 1 /\ ~only429
    /\ response.status_code \in ErrorStatuses
    /\ d_retries = DescribeBudget /\ slept = 55 /\ errSlept = 55

(* C17: describe_picture ends after at most 15 POST requests whatever the  *)
(* service answers: every response that keeps the loop running uses up    *)
(* one attempt of the budget.                                              *)
C17_AtMostFifteenPosts == posts <= DescribeBudget

(* C18: whatever value describe_picture returned (None, a decoded JSON     *)
(* body or the raw bytes of an image-typed response),                      *)
(* get_picture_and_description returns a Result, discards the cycle or     *)
(* fails with 'Maximum retries exceeded'; a raw-bytes result is a          *)
(* discarded cycle.                                                        *)
C18_DescribedValueNeverFaults ==
    [][pc = "eval" =>
          /\ \/ pc' = "returned" /\ returned' # None
             \/ retries' = retries + 1 /\ (exc' = None \/ RetriesExceeded')
          /\ ("type" \in DOMAIN result /\ result.type = "bytes") =>
                retries' = retries + 1]_vars

GenderedWords == {<<"w", "o", "m", "a", "n">>, <<"m", "a", "n">>, <<"w", "o", "m", "e", "n">>, <<"m", "e", "n">>}

(* C10: gender_neutralize applied to its own output changes nothing, it    *)
(* turns "a woman and two men" into "a person and two people", and no      *)
(* whitespace-separated token of its output is a gendered word.            *)
C10_NeutralizeIdempotent ==
    /\ gn_pc = "twice" => twice = neutralized
    /\ (gn_pc # "call" /\ phrase = <<"a", " ", "w", "o", "m", "a", "n", " ", "a", "n", "d", " ", "t", "w", "o", " ", "m", "e", "n">>) =>
          neutralized = <<"a", " ", "p", "e", "r", "s", "o", "n", " ", "a", "n", "d", " ", "t", "w", "o", " ", "p", "e", "o", "p", "l", "e">>
    /\ gn_pc # "call" =>
          \A i \in DOMAIN Split(neutralized) : Split(neutralized)[i] \notin GenderedWords

C10_Witness ==
    /\ gn_pc = "twice"
    /\ phrase = <<"a", " ", "w", "o", "m", "a", "n", " ", "a", "n", "d", " ", "t", "w", "o", " ", "m", "e", "n">>
    /\ neutralized = <<"a", " ", "p", "e", "r", "s", "o", "n", " ", "a", "n", "d", " ", "t", "w", "o", " ", "p", "e", "o", "p", "l", "e">>
    /\ twice = neutralized

====
